---- MODULE Spec2Model ----
(***************************************************************************)
(* The data family of the time-series storage engine (tsdb/family.go):     *)
(* the double-buffered memory database, the per-leader replica sequences,  *)
(* the flush state machine and Close.                                      *)
(*                                                                         *)
(* Threads: the replica writers of Writers (ValidateSequence, WriteRows,   *)
(* CommitSequence), the flush callers of Flushers, one caller of Close and *)
(* the consumers that register ack callbacks.  A handler that holds the    *)
(* family mutex from its first to its last statement is one action guarded *)
(* by the mutex being free; Flush and Close are split at every point where *)
(* another thread can run between two of their statements.                 *)
(***************************************************************************)
EXTENDS Integers, Sequences, FiniteSets, TLC

\* ---- bounds of the model ----
MaxSeq == 2          \* replica sequences are drawn from 1..MaxSeq
MaxMemDB == 2        \* memory databases that newMemoryDBFunc creates
MaxRows == 1         \* rows a memory database holds before WriteRow fails

Leaders == {1}
Flushers == {"f1", "f2"}
Writers == {"w1"}
Consumers == {"c1"}   \* each registers one callback with AckSequence
Closer == "close"
Admins == {"a1", "a2"}   \* callers of Master.FlushDatabase

Absent == -1         \* a leader without an entry in a sequence map
NoDB == 0            \* a nil memory database
NoThread == "none"   \* the family mutex is free
NoCluster == "none"  \* no FlushDatabase call in hand

\* The cluster names FlushDatabase is called with: the state manager of a
\* master knows the first one only.
Clusters == {"known", "unknown"}

SeqVals == 1..MaxSeq
SeqMaps == [Leaders -> {Absent} \cup SeqVals]
EmptySeqMap == [l \in Leaders |-> Absent]

\* A writer with no batch written: no db holds rows of it, no row was lost.
NoLog == [db |-> NoDB, dropped |-> FALSE]
NoCallbacks == [l \in Leaders |-> << >>]
DBIds == 1..MaxMemDB

\* The non-empty batches WriteRows is called with: one entry per row, TRUE for
\* a row whose Writable flag is set.
Batches == {<<TRUE>>, <<FALSE>>, <<FALSE, TRUE>>, <<TRUE, TRUE>>}

VARIABLES
    mutableMemDB,    \* f.mutableMemDB: id of the memory database, or NoDB
    immutableMemDB,  \* f.immutableMemDB
    dbs,             \* the memory databases created so far, by id
    nextDB,          \* id the next created memory database gets
    seq,             \* f.seq: leader -> sequence, Absent without entry
    immutableSeq,    \* f.immutableSeq: [isNil, m]
    persistSeq,      \* f.persistSeq
    callbacks,       \* f.callbacks: leader -> sequence of callbacks (by consumer)
    isFlushing,      \* f.isFlushing
    flushCondition,  \* counter of the f.flushCondition wait group
    mutex,           \* holder of f.mutex, or NoThread
    registered,      \* the family is in the family manager
    kvSeq,           \* sequences committed to the kv family by flushers
    fpc,             \* Flush: position of each caller
    fpath,           \* Flush: the path the current/last call took
    fseq,            \* Flush: the local immutableSeq (line 253)
    fdb,             \* Flush: the local waitingFlushMemDB (line 248)
    finv,            \* Flush: callback invocations made by the call
    fcbs,            \* Flush: the callbacks registered when the call promoted
    cpc,             \* Close: position of the caller
    cres,            \* Close: result of the call
    cseq,            \* Close: sequences handed to flushMemoryDatabase
    cinv,            \* Close: callback invocations made by the call
    wpc,             \* replica writer: position
    wleader,         \* replica writer: leader of the batch in hand
    wseq,            \* replica writer: sequence of the batch in hand
    wdb,             \* replica writer: db returned by GetOrCreateMemoryDatabase
    wbatch,          \* replica writer: rows of the batch, TRUE for a writable row
    committed,       \* history: highest sequence CommitSequence was called with
    regInv,          \* callback invocations made by AckSequence itself
    npc,             \* NeedFlush: position of the caller
    electState,      \* m.elect: where the election stands
    electIsMaster,   \* m.elect.IsMaster()
    stateMgr,        \* m.stateMgr
    stateMachineFct, \* m.stateMachineFct
    apc,             \* FlushDatabase: position of each caller
    acluster,        \* FlushDatabase: the cluster argument
    alookup,         \* FlushDatabase: the state manager the lookup was made on
    ares,            \* FlushDatabase: result of the call
    qpc,             \* Filter: position of the caller
    qmem,            \* Filter: the result sets of memoryFilter, in order
    qheld,           \* Filter: the memory databases holding rows at memoryFilter
    qfile,           \* Filter: the memory databases in the kv snapshot
    wlog,            \* history: where WriteRows left the batch in hand
    lost,            \* history: lowest committed sequence of a batch that lost a row
    minStored        \* history: per db, lowest committed sequence with rows in it

famVars == <<mutableMemDB, immutableMemDB, dbs, nextDB, seq, immutableSeq,
             persistSeq, callbacks, isFlushing, flushCondition,
             mutex, registered, kvSeq>>
flushVars == <<fpc, fpath, fseq, fdb, finv, fcbs>>
closeVars == <<cpc, cres, cseq, cinv>>
writeVars == <<wpc, wleader, wseq, wdb, wbatch>>
histVars == <<committed, regInv>>
familyVars == <<famVars, flushVars, closeVars, writeVars, histVars>>
needVars == <<npc>>
masterVars == <<electState, electIsMaster, stateMgr, stateMachineFct,
                apc, acluster, alookup, ares>>
filterVars == <<qpc, qmem, qheld, qfile>>
logVars == <<wlog, lost, minStored>>
otherVars == <<needVars, masterVars, filterVars, logVars>>
vars == <<familyVars, otherVars>>

\* ---- helpers ----

\* Go's map read: the zero value for a missing key.
Val(m, l) == IF m[l] = Absent THEN 0 ELSE m[l]

Max(a, b) == IF a >= b THEN a ELSE b

NewMemDB == [rows |-> 0, readOnly |-> FALSE, closed |-> FALSE, flushed |-> 0]

\* memDB.Size()
Size(d) == dbs[d].rows

\* ---- construction ----

\* Mutant of SeedSeq: line 139 is missing, f.seq starts empty.
SeedSeqMissing(sequences) == [l \in Leaders |-> Absent]

\* newDataFamily, lines 132-141: both maps are seeded from the sequences of
\* the kv family's current version.
SeedSeq(sequences) == sequences
SeedPersistSeq(sequences) == sequences

\* The sequences the kv family can hold when the family is opened: a leader
\* has a persisted sequence or none.
PersistedSequences == [Leaders -> {Absent, 1}]

Init ==
    /\ mutableMemDB = NoDB
    /\ immutableMemDB = NoDB
    /\ dbs = [d \in DBIds |-> NewMemDB]
    /\ nextDB = 1
    /\ \E sequences \in PersistedSequences :
          /\ kvSeq = sequences
          /\ seq = SeedSeq(sequences)
          /\ persistSeq = SeedPersistSeq(sequences)
    /\ immutableSeq = [isNil |-> TRUE, m |-> EmptySeqMap]
    /\ callbacks = NoCallbacks
    /\ isFlushing = FALSE
    /\ flushCondition = 0
    /\ mutex = NoThread
    /\ registered = TRUE
    /\ fpc = [p \in Flushers |-> "idle"]
    /\ fpath = [p \in Flushers |-> "none"]
    /\ fseq = [p \in Flushers |-> EmptySeqMap]
    /\ fdb = [p \in Flushers |-> NoDB]
    /\ finv = [p \in Flushers |-> {}]
    /\ fcbs = [p \in Flushers |-> NoCallbacks]
    /\ cpc = "idle"
    /\ cres = "none"
    /\ cseq = EmptySeqMap
    /\ cinv = {}
    /\ wpc = [w \in Writers |-> "idle"]
    /\ wleader = [w \in Writers |-> 0]
    /\ wseq = [w \in Writers |-> Absent]
    /\ wdb = [w \in Writers |-> NoDB]
    /\ wbatch = [w \in Writers |-> << >>]
    /\ committed = EmptySeqMap
    /\ regInv = << >>
    /\ npc = "idle"
    /\ electState = "follower"
    /\ electIsMaster = FALSE
    /\ stateMgr = "nil"
    /\ stateMachineFct = "nil"
    /\ apc = [a \in Admins |-> "idle"]
    /\ acluster = [a \in Admins |-> NoCluster]
    /\ alookup = [a \in Admins |-> "none"]
    /\ ares = [a \in Admins |-> "none"]
    /\ qpc = "idle"
    /\ qmem = << >>
    /\ qheld = {}
    /\ qfile = {}
    /\ wlog = [w \in Writers |-> NoLog]
    /\ lost = EmptySeqMap
    /\ minStored = [d \in DBIds |-> EmptySeqMap]

\* ---- sequences ----

\* ValidateSequence, lines 430-438.
ValidateSequence(l, s) ==
    IF seq[l] = Absent THEN TRUE ELSE s > seq[l]

\* CommitSequence, lines 441-448: the map after the store.
CommitSequenceMap(l, s) == [seq EXCEPT ![l] = s]

\* A replica writer takes the next batch of a leader no other writer is
\* serving and validates its sequence; the batch is written and committed
\* only when the sequence is valid.
Validate(w, l, s) ==
    /\ wpc[w] = "idle"
    /\ \A v \in Writers : wleader[v] # l
    /\ mutex = NoThread
    /\ ValidateSequence(l, s)
    /\ wpc' = [wpc EXCEPT ![w] = "get"]
    /\ wleader' = [wleader EXCEPT ![w] = l]
    /\ wseq' = [wseq EXCEPT ![w] = s]
    /\ UNCHANGED <<otherVars,
                   famVars, flushVars, closeVars, wdb, wbatch, histVars>>

\* GetOrCreateMemoryDatabase, lines 465-482, as called by WriteRows (line 388):
\* creation fails, and WriteRows returns the error (lines 389-393) ...
GetOrCreateFail(w) ==
    /\ wpc[w] = "get"
    /\ mutex = NoThread
    /\ mutableMemDB = NoDB
    /\ wpc' = [wpc EXCEPT ![w] = "idle"]
    /\ wleader' = [wleader EXCEPT ![w] = 0]
    /\ wseq' = [wseq EXCEPT ![w] = Absent]
    /\ UNCHANGED <<otherVars,
                   famVars, flushVars, closeVars, wdb, wbatch, histVars>>

\* ... or the mutable memory database is returned, created when absent.
GetOrCreateMemoryDatabase(w) ==
    /\ wpc[w] = "get"
    /\ mutex = NoThread
    /\ IF mutableMemDB = NoDB
       THEN /\ nextDB <= MaxMemDB
            /\ mutableMemDB' = nextDB
            /\ nextDB' = nextDB + 1
       ELSE UNCHANGED <<mutableMemDB, nextDB>>
    /\ wdb' = [wdb EXCEPT ![w] = mutableMemDB']
    /\ \E rows \in Batches : wbatch' = [wbatch EXCEPT ![w] = rows]
    /\ wpc' = [wpc EXCEPT ![w] = "write"]
    /\ UNCHANGED <<otherVars,
                   immutableMemDB, dbs, seq, immutableSeq, persistSeq, callbacks,
                   isFlushing, flushCondition, mutex, registered, kvSeq,
                   flushVars, closeVars, wleader, wseq, histVars>>

\* db.WriteRow: fails on a read-only or full memory database.
WriteRowOk(db) == ~db.readOnly /\ db.rows < MaxRows

\* WriteRows, lines 402-421: one turn of the loop on a memory database db.
\* A row that is not writable is skipped (lines 403-406); db.WriteRow on a
\* writable row stores the row or fails (lines 414-420).
WriteRow(db, row) ==
    IF ~row THEN {db}
    ELSE {db} \cup (IF WriteRowOk(db) THEN {[db EXCEPT !.rows = @ + 1]} ELSE {})

\* WriteRows, lines 402-421: the memory databases the loop can leave.
RECURSIVE WriteLoop(_, _)
WriteLoop(ds, rows) ==
    IF rows = << >> THEN ds
    ELSE WriteLoop(UNION {WriteRow(db, Head(rows)) : db \in ds}, Tail(rows))

\* WriteRows, lines 383-386: an empty batch returns nil at once.
WriteRowsEmpty(w) ==
    /\ wpc[w] = "get"
    /\ wpc' = [wpc EXCEPT ![w] = "commit"]
    /\ UNCHANGED <<otherVars,
                   famVars, flushVars, closeVars, wleader, wseq, wdb, wbatch,
                   histVars>>

\* Mutant of WriteRows: a row that fails ends the call with the error.
WriteRowsAbort(w) ==
    /\ wpc[w] = "write"
    /\ \E db \in WriteLoop({dbs[wdb[w]]}, wbatch[w]) :
          /\ dbs' = [dbs EXCEPT ![wdb[w]] = db]
          /\ IF db.rows = dbs[wdb[w]].rows
             THEN /\ wpc' = [wpc EXCEPT ![w] = "idle"]
                  /\ wleader' = [wleader EXCEPT ![w] = 0]
                  /\ wseq' = [wseq EXCEPT ![w] = Absent]
             ELSE /\ wpc' = [wpc EXCEPT ![w] = "commit"]
                  /\ UNCHANGED <<wleader, wseq>>
    /\ wdb' = [wdb EXCEPT ![w] = NoDB]
    /\ wbatch' = [wbatch EXCEPT ![w] = << >>]
    /\ UNCHANGED <<otherVars,
                   mutableMemDB, immutableMemDB, nextDB, seq, immutableSeq,
                   persistSeq, callbacks, isFlushing, flushCondition,
                   mutex, registered, kvSeq, flushVars, closeVars, histVars>>

\* WriteRows, lines 394-427: the rows of the batch are written into the
\* memory database obtained above; failed rows are counted and the call
\* returns nil.
WriteRows(w) ==
    /\ wpc[w] = "write"
    /\ \E db \in WriteLoop({dbs[wdb[w]]}, wbatch[w]) :
          dbs' = [dbs EXCEPT ![wdb[w]] = db]
    /\ wpc' = [wpc EXCEPT ![w] = "commit"]
    /\ wdb' = [wdb EXCEPT ![w] = NoDB]
    /\ wbatch' = [wbatch EXCEPT ![w] = << >>]
    /\ UNCHANGED <<otherVars,
                   mutableMemDB, immutableMemDB, nextDB, seq, immutableSeq,
                   persistSeq, callbacks, isFlushing, flushCondition,
                   mutex, registered, kvSeq, flushVars, closeVars, wleader, wseq,
                   histVars>>

\* CommitSequence, lines 441-448, called with the validated sequence.
CommitSequence(w) ==
    /\ wpc[w] = "commit"
    /\ mutex = NoThread
    /\ seq' = CommitSequenceMap(wleader[w], wseq[w])
    /\ committed' = [committed EXCEPT ![wleader[w]] = Max(@, wseq[w])]
    /\ wpc' = [wpc EXCEPT ![w] = "idle"]
    /\ wleader' = [wleader EXCEPT ![w] = 0]
    /\ wseq' = [wseq EXCEPT ![w] = Absent]
    /\ UNCHANGED <<otherVars,
                   mutableMemDB, immutableMemDB, dbs, nextDB, immutableSeq,
                   persistSeq, callbacks, isFlushing, flushCondition,
                   mutex, registered, kvSeq, flushVars, closeVars, wdb, wbatch,
                   regInv>>

\* The lower of a recorded sequence, if any, and s.
MinSeq(a, s) == IF a = Absent \/ s < a THEN s ELSE a

\* WriteRows, lines 394-427, as WriteRows(w), with the history of the batch:
\* the memory database that took rows of it, and whether db.WriteRow failed
\* on a writable row (lines 417-420).
WriteRowsLogged(w) ==
    /\ wpc[w] = "write"
    /\ \E db \in WriteLoop({dbs[wdb[w]]}, wbatch[w]) :
          /\ dbs' = [dbs EXCEPT ![wdb[w]] = db]
          /\ wlog' = [wlog EXCEPT ![w] =
                        [db |-> IF db.rows > dbs[wdb[w]].rows
                                THEN wdb[w] ELSE NoDB,
                         dropped |-> db.rows - dbs[wdb[w]].rows
                                        < Cardinality({i \in DOMAIN wbatch[w] :
                                                          wbatch[w][i]})]]
    /\ wpc' = [wpc EXCEPT ![w] = "commit"]
    /\ wdb' = [wdb EXCEPT ![w] = NoDB]
    /\ wbatch' = [wbatch EXCEPT ![w] = << >>]
    /\ UNCHANGED <<needVars, masterVars, filterVars, lost, minStored,
                   mutableMemDB, immutableMemDB, nextDB, seq, immutableSeq,
                   persistSeq, callbacks, isFlushing, flushCondition,
                   mutex, registered, kvSeq, flushVars, closeVars, wleader, wseq,
                   histVars>>

\* CommitSequence, lines 441-448, as CommitSequence(w), with the history of
\* the committed batch.
CommitSequenceLogged(w) ==
    /\ wpc[w] = "commit"
    /\ mutex = NoThread
    /\ seq' = CommitSequenceMap(wleader[w], wseq[w])
    /\ committed' = [committed EXCEPT ![wleader[w]] = Max(@, wseq[w])]
    /\ lost' = IF wlog[w].dropped
               THEN [lost EXCEPT ![wleader[w]] = MinSeq(@, wseq[w])]
               ELSE lost
    /\ minStored' = IF wlog[w].db # NoDB
                    THEN [minStored EXCEPT ![wlog[w].db][wleader[w]] =
                                               MinSeq(@, wseq[w])]
                    ELSE minStored
    /\ wlog' = [wlog EXCEPT ![w] = NoLog]
    /\ wpc' = [wpc EXCEPT ![w] = "idle"]
    /\ wleader' = [wleader EXCEPT ![w] = 0]
    /\ wseq' = [wseq EXCEPT ![w] = Absent]
    /\ UNCHANGED <<needVars, masterVars, filterVars,
                   mutableMemDB, immutableMemDB, dbs, nextDB, immutableSeq,
                   persistSeq, callbacks, isFlushing, flushCondition,
                   mutex, registered, kvSeq, flushVars, closeVars, wdb, wbatch,
                   regInv>>

\* Mutant of AckSequence: the callback is invoked whether or not the leader
\* has a sequence, with the zero value Go reads from the map.
AckSequenceAlways(c, l) ==
    /\ mutex = NoThread
    /\ \A k \in Leaders : \A i \in DOMAIN callbacks[k] : callbacks[k][i] # c
    /\ callbacks' = [callbacks EXCEPT ![l] = Append(@, c)]
    /\ regInv' = Append(regInv, <<l, c, Val(seq, l)>>)
    /\ UNCHANGED <<otherVars,
                   mutableMemDB, immutableMemDB, dbs, nextDB, seq, immutableSeq,
                   persistSeq, isFlushing, flushCondition, mutex, registered,
                   kvSeq, flushVars, closeVars, writeVars, committed>>

\* AckSequence, lines 451-462: consumer c registers its callback for leader l;
\* the callback is invoked at once when the leader has a sequence.
AckSequence(c, l) ==
    /\ mutex = NoThread
    /\ \A k \in Leaders : \A i \in DOMAIN callbacks[k] : callbacks[k][i] # c
    /\ callbacks' = [callbacks EXCEPT ![l] = Append(@, c)]
    /\ regInv' = IF seq[l] # Absent
                 THEN Append(regInv, <<l, c, seq[l]>>)
                 ELSE regInv
    /\ UNCHANGED <<otherVars,
                   mutableMemDB, immutableMemDB, dbs, nextDB, seq, immutableSeq,
                   persistSeq, isFlushing, flushCondition, mutex, registered,
                   kvSeq, flushVars, closeVars, writeVars, committed>>

\* AckSequence, line 452, taken apart from the rest of the call: consumer c
\* holds the mutex and has not appended yet.
AckSequenceLock(c) ==
    /\ mutex = NoThread
    /\ \A k \in Leaders : \A i \in DOMAIN callbacks[k] : callbacks[k][i] # c
    /\ mutex' = c
    /\ UNCHANGED <<otherVars, mutableMemDB, immutableMemDB, dbs, nextDB, seq,
                   immutableSeq, persistSeq, callbacks, isFlushing,
                   flushCondition, registered, kvSeq, flushVars, closeVars,
                   writeVars, histVars>>

\* AckSequence, lines 453-462, by the consumer holding the mutex: the append,
\* the invocation and the deferred unlock.
AckSequenceLocked(c, l) ==
    /\ mutex = c
    /\ callbacks' = [callbacks EXCEPT ![l] = Append(@, c)]
    /\ regInv' = IF seq[l] # Absent
                 THEN Append(regInv, <<l, c, seq[l]>>)
                 ELSE regInv
    /\ mutex' = NoThread
    /\ UNCHANGED <<otherVars, mutableMemDB, immutableMemDB, dbs, nextDB, seq,
                   immutableSeq, persistSeq, isFlushing, flushCondition,
                   registered, kvSeq, flushVars, closeVars, writeVars,
                   committed>>

\* ---- flushMemoryDatabase ----

\* flushMemoryDatabase, lines 520-522: the sequences recorded in the flusher
\* reach the kv family when the flush of the data succeeds.
FlusherSequences(sequences) ==
    [l \in Leaders |-> IF sequences[l] # Absent THEN sequences[l] ELSE kvSeq[l]]

\* flushMemoryDatabase, lines 538-545: every callback of every leader of
\* sequences is invoked with that leader's sequence.
FlushAcks(site, sequences) ==
    UNION {{<<site, l, callbacks[l][i], sequences[l]>> : i \in DOMAIN callbacks[l]} :
              l \in {k \in Leaders : sequences[k] # Absent}}

\* flushMemoryDatabase, lines 529-557, on success: the data is on disk and
\* the memory database is closed.
FlushedDBs(d) == [dbs EXCEPT ![d].flushed = @ + 1, ![d].closed = TRUE]

\* ---- Flush ----

\* Flush, line 228: the callers of Flush are interchangeable goroutines; the
\* one that calls while no other call is in progress is named f1.
MayCall(p) == p = "f1" \/ fpc["f1"] # "idle"

\* Mutant of CASIsFlushing: a plain Store(true) in place of the
\* compare-and-set, which admits every caller.
StoreIsFlushing == TRUE

\* Flush, line 229: the compare-and-set of isFlushing succeeds.
CASIsFlushing == ~isFlushing

\* Flush, lines 229 and 291: the admission gate; a caller that loses the
\* compare-and-set returns nil at once.
FlushCAS(p) ==
    /\ fpc[p] = "idle"
    /\ MayCall(p)
    /\ IF CASIsFlushing
       THEN /\ isFlushing' = TRUE
            /\ fpc' = [fpc EXCEPT ![p] = "add"]
            /\ fpath' = [fpath EXCEPT ![p] = "admitted"]
       ELSE /\ fpc' = [fpc EXCEPT ![p] = "return"]
            /\ fpath' = [fpath EXCEPT ![p] = "busy"]
            /\ UNCHANGED isFlushing
    /\ UNCHANGED <<otherVars,
                   mutableMemDB, immutableMemDB, dbs, nextDB, seq, immutableSeq,
                   persistSeq, callbacks, flushCondition, mutex,
                   registered, kvSeq, fseq, fdb, finv, fcbs, closeVars, writeVars,
                   histVars>>

\* Flush, line 291: the caller that lost the compare-and-set returns nil.
FlushReturnBusy(p) ==
    /\ fpc[p] = "return"
    /\ fpc' = [fpc EXCEPT ![p] = "idle"]
    /\ fpath' = [fpath EXCEPT ![p] = "none"]
    /\ UNCHANGED <<otherVars,
                   famVars, fseq, fdb, finv, fcbs, closeVars, writeVars, histVars>>

\* Flush, line 237: flushCondition.Add(1).
FlushAdd(p) ==
    /\ fpc[p] = "add"
    /\ flushCondition' = flushCondition + 1
    /\ fpc' = [fpc EXCEPT ![p] = "swap"]
    /\ UNCHANGED <<otherVars,
                   mutableMemDB, immutableMemDB, dbs, nextDB, seq, immutableSeq,
                   persistSeq, callbacks, isFlushing, mutex, registered,
                   kvSeq, fpath, fseq, fdb, finv, fcbs, closeVars, writeVars, histVars>>

\* Mutant of NothingToFlush: a retained immutable memory database is not
\* looked at.
NothingToFlushNoImm ==
    \/ mutableMemDB = NoDB
    \/ Size(mutableMemDB) = 0

\* Flush, line 243: nothing to flush, or an immutable memory database is there.
NothingToFlush ==
    \/ immutableMemDB # NoDB
    \/ mutableMemDB = NoDB
    \/ Size(mutableMemDB) = 0

\* Flush, lines 253-256: the snapshot of f.seq.
SnapshotSeq == seq

\* Flush, lines 242-258: under the mutex, return when there is nothing to
\* flush, else promote the mutable memory database and snapshot the sequences.
FlushSwap(p) ==
    /\ fpc[p] = "swap"
    /\ mutex = NoThread
    /\ IF NothingToFlush
       THEN /\ fpath' = [fpath EXCEPT ![p] = "nodata"]
            /\ fpc' = [fpc EXCEPT ![p] = "deferDone"]
            /\ UNCHANGED <<mutableMemDB, immutableMemDB, dbs, immutableSeq, fseq,
                           fdb, fcbs>>
       ELSE /\ immutableMemDB' = mutableMemDB
            /\ mutableMemDB' = NoDB
            /\ dbs' = [dbs EXCEPT ![mutableMemDB].readOnly = TRUE]
            /\ immutableSeq' = [isNil |-> FALSE, m |-> SnapshotSeq]
            /\ fseq' = [fseq EXCEPT ![p] = SnapshotSeq]
            /\ fdb' = [fdb EXCEPT ![p] = mutableMemDB]
            /\ fcbs' = [fcbs EXCEPT ![p] = callbacks]
            /\ fpc' = [fpc EXCEPT ![p] = "fmdb"]
            /\ UNCHANGED fpath
    /\ UNCHANGED <<otherVars, nextDB, seq, persistSeq, callbacks, isFlushing,
                   flushCondition, mutex, registered, kvSeq, finv, closeVars,
                   writeVars, histVars>>

\* Mutant of FlushFmdbFail: the failing Flush drops the immutable memory
\* database and its sequences before it returns the error.
FlushFmdbFailDrops(p) ==
    /\ fpc[p] = "fmdb"
    /\ fpc' = [fpc EXCEPT ![p] = "deferDone"]
    /\ fpath' = [fpath EXCEPT ![p] = "failed"]
    /\ immutableMemDB' = NoDB
    /\ immutableSeq' = [isNil |-> TRUE, m |-> EmptySeqMap]
    /\ UNCHANGED <<otherVars,
                   mutableMemDB, dbs, nextDB, seq, persistSeq, callbacks,
                   isFlushing, flushCondition, mutex, registered, kvSeq, fseq,
                   fdb, finv, fcbs, closeVars, writeVars, histVars>>

\* Flush, lines 260-262, flushMemoryDatabase lines 524-535: newMetricDataFlusher
\* or FlushFamilyTo fails; Flush returns the error and leaves the immutable
\* state as it is.
FlushFmdbFail(p) ==
    /\ fpc[p] = "fmdb"
    /\ fpc' = [fpc EXCEPT ![p] = "deferDone"]
    /\ fpath' = [fpath EXCEPT ![p] = "failed"]
    /\ UNCHANGED <<otherVars,
                   famVars, fseq, fdb, finv, fcbs, closeVars, writeVars, histVars>>

\* flushMemoryDatabase lines 529-557 from Flush: the data is written, the
\* callbacks are invoked with the flushed sequences, the database is closed.
FlushFmdbOk(p) ==
    /\ fpc[p] = "fmdb"
    /\ kvSeq' = FlusherSequences(fseq[p])
    /\ finv' = [finv EXCEPT ![p] = @ \cup FlushAcks("fmdb", fseq[p])]
    /\ dbs' = FlushedDBs(fdb[p])
    /\ fpc' = [fpc EXCEPT ![p] = "commit"]
    /\ UNCHANGED <<otherVars,
                   mutableMemDB, immutableMemDB, nextDB, seq, immutableSeq,
                   persistSeq, callbacks, isFlushing, flushCondition,
                   mutex, registered, fpath, fseq, fdb, fcbs, closeVars,
                   writeVars, histVars>>

\* Flush, lines 268-270: f.seq after the flushed snapshot is written back.
RestoreSeq(snapshot) ==
    [l \in Leaders |-> IF snapshot[l] # Absent THEN snapshot[l] ELSE seq[l]]

\* Flush, lines 271-279: every callback of every leader that has a sequence
\* is invoked with the sequence f.seq holds now.
CommitAcks(newSeq) ==
    UNION {{<<"commit", l, callbacks[l][i], newSeq[l]>> : i \in DOMAIN callbacks[l]} :
              l \in {k \in Leaders : newSeq[k] # Absent}}

\* Flush, lines 265-280: the commit step under the mutex.
FlushCommit(p) ==
    /\ fpc[p] = "commit"
    /\ mutex = NoThread
    /\ immutableMemDB' = NoDB
    /\ immutableSeq' = [isNil |-> TRUE, m |-> EmptySeqMap]
    /\ seq' = RestoreSeq(fseq[p])
    /\ finv' = [finv EXCEPT ![p] = @ \cup CommitAcks(seq')]
    /\ fpath' = [fpath EXCEPT ![p] = "flushed"]
    /\ fpc' = [fpc EXCEPT ![p] = "deferDone"]
    /\ UNCHANGED <<otherVars, mutableMemDB, dbs, nextDB, persistSeq, callbacks,
                   isFlushing, flushCondition, mutex, registered, kvSeq, fseq,
                   fdb, fcbs, closeVars, writeVars, histVars>>

\* Flush, line 232: the deferred flushCondition.Done().
FlushDeferDone(p) ==
    /\ fpc[p] = "deferDone"
    /\ flushCondition' = flushCondition - 1
    /\ fpc' = [fpc EXCEPT ![p] = "deferStore"]
    /\ UNCHANGED <<otherVars,
                   mutableMemDB, immutableMemDB, dbs, nextDB, seq, immutableSeq,
                   persistSeq, callbacks, isFlushing, mutex, registered,
                   kvSeq, fpath, fseq, fdb, finv, fcbs, closeVars, writeVars, histVars>>

\* Flush, line 233: the deferred isFlushing.Store(false); Flush returns.
FlushDeferStore(p) ==
    /\ fpc[p] = "deferStore"
    /\ isFlushing' = FALSE
    /\ fpc' = [fpc EXCEPT ![p] = "idle"]
    /\ fpath' = [fpath EXCEPT ![p] = "none"]
    /\ fseq' = [fseq EXCEPT ![p] = EmptySeqMap]
    /\ fdb' = [fdb EXCEPT ![p] = NoDB]
    /\ finv' = [finv EXCEPT ![p] = {}]
    /\ fcbs' = [fcbs EXCEPT ![p] = NoCallbacks]
    /\ UNCHANGED <<otherVars,
                   mutableMemDB, immutableMemDB, dbs, nextDB, seq, immutableSeq,
                   persistSeq, callbacks, flushCondition, mutex,
                   registered, kvSeq, closeVars, writeVars, histVars>>

\* What the Flush call of p returned.
FlushResult(p) == IF fpath[p] = "failed" THEN "err" ELSE "nil"

\* ---- Close ----

\* Close, line 486: the mutex is taken and held until Close returns.
CloseLock ==
    /\ cpc = "idle"
    /\ mutex = NoThread
    /\ mutex' = Closer
    /\ cpc' = "wait"
    /\ UNCHANGED <<otherVars,
                   mutableMemDB, immutableMemDB, dbs, nextDB, seq, immutableSeq,
                   persistSeq, callbacks, isFlushing, flushCondition,
                   registered, kvSeq, flushVars, cres, cseq, cinv, writeVars,
                   histVars>>

\* flushCondition.Wait() returns once the counter is zero.
WaitReturns == flushCondition = 0

\* Mutant of CloseNext: Close passes over the immutable memory database.
CloseNextMutableOnly(afterImm) ==
    IF mutableMemDB # NoDB THEN "mutWrite"
    ELSE "remove"

\* Close, lines 491-501: what Close does next, all of it under the mutex: the
\* flushMemoryDatabase call for the immutable memory database (afterImm
\* false), then the one for the mutable memory database, then the removal.
CloseNext(afterImm) ==
    IF ~afterImm /\ immutableMemDB # NoDB THEN "immWrite"
    ELSE IF mutableMemDB # NoDB THEN "mutWrite"
    ELSE "remove"

\* The sequences Close hands to flushMemoryDatabase: f.immutableSeq (line 492)
\* or a snapshot of f.seq (lines 497-500).
CloseSequences(pos) ==
    IF pos = "immWrite" THEN immutableSeq.m
    ELSE IF pos = "mutWrite" THEN SnapshotSeq
    ELSE EmptySeqMap

\* Close, line 489: Wait returns, and Close enters its first
\* flushMemoryDatabase call, or goes on to the removal.
CloseWait ==
    /\ cpc = "wait"
    /\ WaitReturns
    /\ cpc' = CloseNext(FALSE)
    /\ cseq' = CloseSequences(cpc')
    /\ UNCHANGED <<otherVars,
                   famVars, flushVars, cres, cinv, writeVars, histVars>>

\* The memory database the flushMemoryDatabase call of Close works on.
CloseDB == IF cpc = "immWrite" THEN immutableMemDB ELSE mutableMemDB

\* Mutant of CloseFmdbFail: the family is removed although the flush failed.
CloseFmdbFailRemoves ==
    /\ cpc \in {"immWrite", "mutWrite"}
    /\ cres' = "err"
    /\ cpc' = "done"
    /\ mutex' = NoThread
    /\ registered' = FALSE
    /\ cseq' = EmptySeqMap
    /\ cinv' = {}
    /\ UNCHANGED <<otherVars,
                   mutableMemDB, immutableMemDB, dbs, nextDB, seq, immutableSeq,
                   persistSeq, callbacks, isFlushing, flushCondition,
                   kvSeq, flushVars, writeVars, histVars>>

\* Close, lines 492-494 and 501-503: flushMemoryDatabase fails (lines 524-535);
\* Close returns the error, the deferred unlock runs.
CloseFmdbFail ==
    /\ cpc \in {"immWrite", "mutWrite"}
    /\ cres' = "err"
    /\ cpc' = "done"
    /\ mutex' = NoThread
    /\ cseq' = EmptySeqMap
    /\ cinv' = {}
    /\ UNCHANGED <<otherVars,
                   mutableMemDB, immutableMemDB, dbs, nextDB, seq, immutableSeq,
                   persistSeq, callbacks, isFlushing, flushCondition,
                   registered, kvSeq, flushVars, writeVars, histVars>>

\* flushMemoryDatabase lines 529-557 from Close: as from Flush; Close leaves
\* f.immutableMemDB and f.mutableMemDB as they are and goes on.
CloseFmdbOk ==
    /\ cpc \in {"immWrite", "mutWrite"}
    /\ kvSeq' = FlusherSequences(cseq)
    /\ cinv' = cinv \cup FlushAcks(cpc, cseq)
    /\ dbs' = FlushedDBs(CloseDB)
    /\ cpc' = IF cpc = "immWrite" THEN CloseNext(TRUE) ELSE "remove"
    /\ cseq' = CloseSequences(cpc')
    /\ UNCHANGED <<otherVars,
                   mutableMemDB, immutableMemDB, nextDB, seq, immutableSeq,
                   persistSeq, callbacks, isFlushing, flushCondition,
                   mutex, registered, flushVars, cres, writeVars, histVars>>

\* Close, lines 506-508: the family leaves the family manager, Close returns
\* nil, the deferred unlock runs.
CloseRemove ==
    /\ cpc = "remove"
    /\ registered' = FALSE
    /\ cres' = "nil"
    /\ cpc' = "done"
    /\ mutex' = NoThread
    /\ cseq' = EmptySeqMap
    /\ cinv' = {}
    /\ UNCHANGED <<otherVars,
                   mutableMemDB, immutableMemDB, dbs, nextDB, seq, immutableSeq,
                   persistSeq, callbacks, isFlushing, flushCondition,
                   kvSeq, flushVars, writeVars, histVars>>

\* ---- the system ----

\* ---- NeedFlush ----

\* NeedFlush, lines 188-219, under the mutex: whether a flush is needed.
\* expired stands for Uptime() >= ttl, full for MemSize() >= maxMemDBSize.
NeedFlushResult(expired, full) ==
    /\ immutableMemDB = NoDB
    /\ mutableMemDB # NoDB
    /\ Size(mutableMemDB) > 0
    /\ (expired \/ full)

\* NeedFlush, lines 182-184: isFlushing is loaded, and the call returns false
\* when it is set.
NeedFlushLoad ==
    /\ npc = "idle"
    /\ npc' = IF isFlushing THEN "idle" ELSE "lock"
    /\ UNCHANGED <<familyVars, masterVars, filterVars, logVars>>

\* NeedFlush, lines 185-219: the checks under the mutex and the return.
NeedFlushCheck ==
    /\ npc = "lock"
    /\ mutex = NoThread
    /\ \E expired, full \in BOOLEAN :
          npc' = IF NeedFlushResult(expired, full) THEN "true" ELSE "idle"
    /\ UNCHANGED <<familyVars, masterVars, filterVars, logVars>>

\* The caller of NeedFlush has taken the result true.
NeedFlushReturn ==
    /\ npc = "true"
    /\ npc' = "idle"
    /\ UNCHANGED <<familyVars, masterVars, filterVars, logVars>>

\* ---- Filter ----

\* The memory databases created so far.
Created == 1..(nextDB - 1)

\* Mutant of MemResultSets: the immutable memory database is not filtered.
MemResultSetsMutableOnly ==
    IF mutableMemDB # NoDB THEN <<<<"mutable", mutableMemDB>>>> ELSE << >>

\* memoryFilter, lines 331-340: the result sets of the mutable memory
\* database, then those of the immutable one, each when it is there.
MemResultSets ==
    (IF mutableMemDB # NoDB THEN <<<<"mutable", mutableMemDB>>>> ELSE << >>)
    \o (IF immutableMemDB # NoDB
        THEN <<<<"immutable", immutableMemDB>>>> ELSE << >>)

\* fileFilter, lines 345-379: the kv snapshot holds what flushMemoryDatabase
\* calls have flushed so far.
FileResultSets == {d \in Created : dbs[d].flushed > 0}

\* memoryFilter, lines 320-342, under the mutex.
MemoryFilter ==
    /\ qpc = "idle"
    /\ mutex = NoThread
    /\ qmem' = MemResultSets
    /\ qheld' = {d \in Created : dbs[d].rows > 0}
    /\ qpc' = "file"
    /\ UNCHANGED <<familyVars, needVars, masterVars, qfile, logVars>>

\* memoryFilter, lines 322-325 and 332-339: memDB.Filter fails and Filter
\* returns the error (lines 308-310).
MemoryFilterErr ==
    /\ qpc = "idle"
    /\ mutex = NoThread
    /\ mutableMemDB # NoDB \/ immutableMemDB # NoDB
    /\ UNCHANGED vars

\* fileFilter, lines 344-380, outside the mutex.
FileFilter ==
    /\ qpc = "file"
    /\ qfile' = FileResultSets
    /\ qpc' = "done"
    /\ UNCHANGED <<familyVars, needVars, masterVars, qmem, qheld, logVars>>

\* fileFilter fails (lines 353-356, 366-368) and Filter returns the error
\* (lines 312-314).
FileFilterErr ==
    /\ qpc = "file"
    /\ qpc' = "idle"
    /\ qmem' = << >>
    /\ qheld' = {}
    /\ UNCHANGED <<familyVars, needVars, masterVars, qfile, logVars>>

\* Filter, lines 315-317: the memory result sets, then the file result sets.
ResultSet == qmem \o <<<<"file", qfile>>>>

\* The caller of Filter has taken the result sets.
FilterReturn ==
    /\ qpc = "done"
    /\ qpc' = "idle"
    /\ qmem' = << >>
    /\ qheld' = {}
    /\ qfile' = {}
    /\ UNCHANGED <<familyVars, needVars, masterVars, logVars>>

\* ---- the master's election ----

\* The election acquires the lease; it goes on to invoke OnFailOver.
ElectAcquire ==
    /\ electState = "follower"
    /\ electState' = "acquired"
    /\ UNCHANGED <<familyVars, needVars, filterVars, logVars,
                   electIsMaster, stateMgr,
                   stateMachineFct, apc, acluster, alookup, ares>>

\* IsMaster() starts to answer true: when the lease is held, before or after
\* OnFailOver has run.
ElectStoreMaster ==
    /\ electState \in {"acquired", "master"}
    /\ ~electIsMaster
    /\ electIsMaster' = TRUE
    /\ UNCHANGED <<familyVars, needVars, filterVars, logVars,
                   electState, stateMgr,
                   stateMachineFct, apc, acluster, alookup, ares>>

\* The lease is lost or given up; the election goes on to invoke
\* OnResignation.
ElectLose ==
    /\ electState = "master"
    /\ electState' = "lost"
    /\ UNCHANGED <<familyVars, needVars, filterVars, logVars,
                   electIsMaster, stateMgr,
                   stateMachineFct, apc, acluster, alookup, ares>>

\* IsMaster() starts to answer false: once the lease is lost, before or after
\* OnResignation has run.
ElectClearMaster ==
    /\ electState \in {"lost", "resigned"}
    /\ electIsMaster
    /\ electIsMaster' = FALSE
    /\ UNCHANGED <<familyVars, needVars, filterVars, logVars,
                   electState, stateMgr,
                   stateMachineFct, apc, acluster, alookup, ares>>

\* The election starts over.
ElectReelect ==
    /\ electState = "resigned"
    /\ ~electIsMaster
    /\ electState' = "follower"
    /\ UNCHANGED <<familyVars, needVars, filterVars, logVars,
                   electIsMaster, stateMgr,
                   stateMachineFct, apc, acluster, alookup, ares>>

\* ---- Master ----
\* OnFailOver, OnResignation and the locked part of FlushDatabase hold
\* m.mutex from their first to their last statement: each is one step.

\* OnFailOver, lines 98-126, the factory starts: both fields are assigned
\* (lines 114-115).
OnFailOverOk ==
    /\ electState = "acquired"
    /\ stateMachineFct' = "started"
    /\ stateMgr' = "open"
    /\ electState' = "master"
    /\ UNCHANGED <<familyVars, needVars, filterVars, logVars,
                   electIsMaster, apc, acluster,
                   alookup, ares>>

\* OnFailOver, lines 98-126, the factory fails to start: the new pair is
\* stopped and closed, m.stateMachineFct is set to nil and m.stateMgr is left
\* as it was (lines 109-112); the election re-elects, with or without
\* invoking OnResignation first.
OnFailOverFail ==
    /\ electState = "acquired"
    /\ stateMachineFct' = "nil"
    /\ electState' \in {"lost", "resigned"}
    /\ UNCHANGED <<familyVars, needVars, filterVars, logVars,
                   electIsMaster, stateMgr, apc,
                   acluster, alookup, ares>>

\* OnResignation, lines 129-142: the factory is stopped and set to nil; the
\* state manager is closed and stays in m.stateMgr.
OnResignation ==
    /\ electState = "lost"
    /\ stateMachineFct' = "nil"
    /\ stateMgr' = IF stateMgr # "nil" THEN "closed" ELSE "nil"
    /\ electState' = "resigned"
    /\ UNCHANGED <<familyVars, needVars, filterVars, logVars,
                   electIsMaster, apc, acluster,
                   alookup, ares>>

\* FlushDatabase, lines 171 and 181: IsMaster() is read outside the mutex; a
\* node that is not master returns nil.
FlushDatabaseIsMaster(a, cluster) ==
    /\ apc[a] = "idle"
    /\ acluster' = [acluster EXCEPT ![a] = cluster]
    /\ IF electIsMaster
       THEN /\ apc' = [apc EXCEPT ![a] = "lock"]
            /\ UNCHANGED ares
       ELSE /\ apc' = [apc EXCEPT ![a] = "done"]
            /\ ares' = [ares EXCEPT ![a] = "nil"]
    /\ UNCHANGED <<familyVars, needVars, filterVars, logVars,
                   electState, electIsMaster, stateMgr,
                   stateMachineFct, alookup>>

\* What FlushDatabase returns after the lookup (lines 175-179): a nil
\* m.stateMgr makes the call panic, an unknown cluster gives
\* ErrNoStorageCluster, a known one the result of storage.FlushDatabase; a
\* closed state manager may still know the cluster or not.
LookupResults(mgr, cluster) ==
    IF mgr = "nil" THEN {"panic"}
    ELSE IF mgr = "open" /\ cluster = "unknown" THEN {"ErrNoStorageCluster"}
    ELSE IF mgr = "open" THEN {"nil", "err"}
    ELSE {"ErrNoStorageCluster", "nil", "err"}

\* FlushDatabase, lines 172-179: under the mutex, the storage cluster is
\* looked up in m.stateMgr and the flush is delegated.
FlushDatabaseLookup(a) ==
    /\ apc[a] = "lock"
    /\ alookup' = [alookup EXCEPT ![a] = stateMgr]
    /\ \E r \in LookupResults(stateMgr, acluster[a]) :
          ares' = [ares EXCEPT ![a] = r]
    /\ apc' = [apc EXCEPT ![a] = "done"]
    /\ UNCHANGED <<familyVars, needVars, filterVars, logVars,
                   electState, electIsMaster, stateMgr,
                   stateMachineFct, acluster>>

\* The caller of FlushDatabase has taken the result.
FlushDatabaseReturn(a) ==
    /\ apc[a] = "done"
    /\ apc' = [apc EXCEPT ![a] = "idle"]
    /\ acluster' = [acluster EXCEPT ![a] = NoCluster]
    /\ alookup' = [alookup EXCEPT ![a] = "none"]
    /\ ares' = [ares EXCEPT ![a] = "none"]
    /\ UNCHANGED <<familyVars, needVars, filterVars, logVars,
                   electState, electIsMaster, stateMgr,
                   stateMachineFct>>

\* ---- specifications ----

Next ==
    \/ \E w \in Writers, l \in Leaders, s \in SeqVals : Validate(w, l, s)
    \/ \E w \in Writers : WriteRowsEmpty(w)
    \/ \E w \in Writers : GetOrCreateFail(w)
    \/ \E w \in Writers : GetOrCreateMemoryDatabase(w)
    \/ \E w \in Writers : WriteRows(w)
    \/ \E w \in Writers : CommitSequence(w)
    \/ \E c \in Consumers, l \in Leaders : AckSequence(c, l)
    \/ \E p \in Flushers : FlushCAS(p)
    \/ \E p \in Flushers : FlushReturnBusy(p)
    \/ \E p \in Flushers : FlushAdd(p)
    \/ \E p \in Flushers : FlushSwap(p)
    \/ \E p \in Flushers : FlushFmdbFail(p)
    \/ \E p \in Flushers : FlushFmdbOk(p)
    \/ \E p \in Flushers : FlushCommit(p)
    \/ \E p \in Flushers : FlushDeferDone(p)
    \/ \E p \in Flushers : FlushDeferStore(p)
    \/ CloseLock
    \/ CloseWait
    \/ CloseFmdbFail
    \/ CloseFmdbOk
    \/ CloseRemove

Spec == Init /\ [][Next]_vars

\* The family with a caller of NeedFlush.
NextNeedFlush ==
    \/ Next
    \/ NeedFlushLoad
    \/ NeedFlushCheck
    \/ NeedFlushReturn

SpecNeedFlush == Init /\ [][NextNeedFlush]_vars

\* The master with its election and the callers of FlushDatabase.
NextMaster ==
    \/ ElectAcquire
    \/ ElectStoreMaster
    \/ ElectLose
    \/ ElectClearMaster
    \/ ElectReelect
    \/ OnFailOverOk
    \/ OnFailOverFail
    \/ OnResignation
    \/ \E a \in Admins, cluster \in Clusters : FlushDatabaseIsMaster(a, cluster)
    \/ \E a \in Admins : FlushDatabaseLookup(a)
    \/ \E a \in Admins : FlushDatabaseReturn(a)

SpecMaster == Init /\ [][NextMaster]_vars

\* The writers and the callers of Flush with a caller of Filter.
NextFilter ==
    \/ \E w \in Writers, l \in Leaders, s \in SeqVals : Validate(w, l, s)
    \/ \E w \in Writers : WriteRowsEmpty(w)
    \/ \E w \in Writers : GetOrCreateFail(w)
    \/ \E w \in Writers : GetOrCreateMemoryDatabase(w)
    \/ \E w \in Writers : WriteRows(w)
    \/ \E w \in Writers : CommitSequence(w)
    \/ \E p \in Flushers : FlushCAS(p)
    \/ \E p \in Flushers : FlushReturnBusy(p)
    \/ \E p \in Flushers : FlushAdd(p)
    \/ \E p \in Flushers : FlushSwap(p)
    \/ \E p \in Flushers : FlushFmdbFail(p)
    \/ \E p \in Flushers : FlushFmdbOk(p)
    \/ \E p \in Flushers : FlushCommit(p)
    \/ \E p \in Flushers : FlushDeferDone(p)
    \/ \E p \in Flushers : FlushDeferStore(p)
    \/ MemoryFilter
    \/ MemoryFilterErr
    \/ FileFilter
    \/ FileFilterErr
    \/ FilterReturn

SpecFilter == Init /\ [][NextFilter]_vars

\* The family with AckSequence in two steps, so that other callers run while
\* a consumer holds the mutex.
NextRace ==
    \/ Next
    \/ \E c \in Consumers : AckSequenceLock(c)
    \/ \E c \in Consumers, l \in Leaders : AckSequenceLocked(c, l)

SpecRace == Init /\ [][NextRace]_vars

\* The family with the history of every committed batch.
NextWatermark ==
    \/ \E w \in Writers, l \in Leaders, s \in SeqVals : Validate(w, l, s)
    \/ \E w \in Writers : WriteRowsEmpty(w)
    \/ \E w \in Writers : GetOrCreateFail(w)
    \/ \E w \in Writers : GetOrCreateMemoryDatabase(w)
    \/ \E w \in Writers : WriteRowsLogged(w)
    \/ \E w \in Writers : CommitSequenceLogged(w)
    \/ \E c \in Consumers, l \in Leaders : AckSequence(c, l)
    \/ \E p \in Flushers : FlushCAS(p)
    \/ \E p \in Flushers : FlushReturnBusy(p)
    \/ \E p \in Flushers : FlushAdd(p)
    \/ \E p \in Flushers : FlushSwap(p)
    \/ \E p \in Flushers : FlushFmdbFail(p)
    \/ \E p \in Flushers : FlushFmdbOk(p)
    \/ \E p \in Flushers : FlushCommit(p)
    \/ \E p \in Flushers : FlushDeferDone(p)
    \/ \E p \in Flushers : FlushDeferStore(p)
    \/ CloseLock
    \/ CloseWait
    \/ CloseFmdbFail
    \/ CloseFmdbOk
    \/ CloseRemove

SpecWatermark == Init /\ [][NextWatermark]_vars

TypeOK ==
    /\ mutableMemDB \in {NoDB} \cup DBIds
    /\ immutableMemDB \in {NoDB} \cup DBIds
    /\ seq \in SeqMaps /\ persistSeq \in SeqMaps /\ kvSeq \in SeqMaps
    /\ flushCondition \in 0..1
    /\ mutex \in {NoThread, Closer} \cup Consumers
    /\ npc \in {"idle", "lock", "true"}
    /\ electState \in {"follower", "acquired", "master", "lost", "resigned"}
    /\ electIsMaster \in BOOLEAN
    /\ stateMgr \in {"nil", "open", "closed"}
    /\ stateMachineFct \in {"nil", "started"}
    /\ apc \in [Admins -> {"idle", "lock", "done"}]
    /\ acluster \in [Admins -> {NoCluster} \cup Clusters]
    /\ alookup \in [Admins -> {"none", "nil", "open", "closed"}]
    /\ ares \in [Admins -> {"none", "nil", "err", "panic",
                             "ErrNoStorageCluster"}]
    /\ wbatch \in [Writers -> {<< >>} \cup Batches]

\* ---- properties ----

\* The Flush call of p passed the admission gate and has not returned.
Admitted(p) == fpc[p] \notin {"idle", "return"}

\* The Flush call of p is about to return (its remaining statements are the
\* deferred ones) after having taken the path `path`.
Returning(p, path) == fpc[p] \in {"deferDone", "deferStore"} /\ fpath[p] = path

\* The number of flushMemoryDatabase executions in progress.
FmdbInProgress ==
    Cardinality({p \in Flushers : fpc[p] = "fmdb"})
    + (IF cpc \in {"immWrite", "mutWrite"} THEN 1 ELSE 0)

\* How often the Flush call of p has invoked the callback of consumer c for
\* leader l, in flushMemoryDatabase and in the commit step together.
Invocations(p, l, c) == Cardinality({e \in finv[p] : e[2] = l /\ e[3] = c})

\* C1: for every leader, seq[l] never decreases from one state to the next
\* (an entry neither disappears nor gets a smaller value).
C1_SeqNeverDecreases ==
    [][\A l \in Leaders :
          seq[l] # Absent => (seq'[l] # Absent /\ seq'[l] >= seq[l])]_vars

\* C2: once CommitSequence(l, s) has returned, ValidateSequence(l, s') is
\* false for every s' <= s in every later state.
C2_DuplicateRejectionPermanent ==
    \A l \in Leaders : \A s \in SeqVals :
        (committed[l] # Absent /\ s <= committed[l]) => ~ValidateSequence(l, s)

\* C3: no reachable state has Close blocked in flushCondition.Wait (holding
\* the family mutex) while the Flush in progress is blocked acquiring the
\* family mutex.
C3_NoCloseFlushDeadlock ==
    ~(/\ cpc = "wait"
      /\ ~WaitReturns
      /\ mutex = Closer
      /\ \E p \in Flushers : fpc[p] \in {"swap", "commit"})

\* C4: at most one execution of flushMemoryDatabase is in progress at any
\* time, by Flush callers and Close together, and at most one Flush call is
\* past the admission gate.
C4_SingleFlush ==
    /\ FmdbInProgress <= 1
    /\ Cardinality({p \in Flushers : Admitted(p)}) <= 1

\* C4 witness: a Flush is inside flushMemoryDatabase while a second Flush
\* call has lost the compare-and-set and Close has been invoked.
C4_Witness ==
    \E p, q \in Flushers :
        /\ fpc[p] = "fmdb"
        /\ fpc[q] = "return"
        /\ cpc = "wait"

\* C5: when a Flush that promoted a memtable with snapshot immutableSeq
\* completes successfully, persistSeq[l] >= immutableSeq[l] for every leader
\* of the snapshot.
C5_PersistSeqAfterFlush ==
    \A p \in Flushers :
        Returning(p, "flushed") =>
            \A l \in Leaders :
                fseq[p][l] # Absent => Val(persistSeq, l) >= fseq[p][l]

\* C6: in every reachable state and for every leader, persistSeq[l] <= seq[l],
\* and whenever immutableSeq is set,
\* persistSeq[l] <= immutableSeq[l] <= seq[l].
C6_SeqOrder ==
    \A l \in Leaders :
        /\ Val(persistSeq, l) <= Val(seq, l)
        /\ ~immutableSeq.isNil =>
              /\ Val(persistSeq, l) <= Val(immutableSeq.m, l)
              /\ Val(immutableSeq.m, l) <= Val(seq, l)

\* C6 witness: a failed flush has left immutableSeq in place, the leader has a
\* persisted sequence, and a later CommitSequence has moved seq past the
\* snapshot.
C6_Witness ==
    \E l \in Leaders :
        /\ ~immutableSeq.isNil
        /\ \A p \in Flushers : fpc[p] = "idle"
        /\ persistSeq[l] # Absent
        /\ immutableSeq.m[l] # Absent
        /\ seq[l] > immutableSeq.m[l]

\* C7: a Flush whose flushMemoryDatabase fails returns the error and leaves
\* immutableMemDB the promoted memtable, immutableSeq the snapshot it took and
\* isFlushing false; none of its steps changes seq or persistSeq, and it has
\* invoked no callback.
C7_FailedFlushRetainsState ==
    [][\A p \in Flushers :
          /\ (fpath'[p] = "failed" /\ fpath[p] # "failed") => fpc[p] = "fmdb"
          /\ (fpath[p] = "failed" /\ fpc'[p] # fpc[p]) =>
                /\ seq' = seq
                /\ persistSeq' = persistSeq
                /\ finv[p] = {}
          /\ (fpath[p] = "failed" /\ fpc[p] = "deferStore" /\ fpc'[p] = "idle") =>
                /\ FlushResult(p) = "err"
                /\ fdb[p] # NoDB
                /\ immutableMemDB' = fdb[p]
                /\ ~immutableSeq'.isNil
                /\ immutableSeq'.m = fseq[p]
                /\ ~isFlushing']_vars

\* C7 witness: a Flush that promoted a memtable with a sequence in its
\* snapshot, while a callback was registered for that leader, is returning
\* the error of flushMemoryDatabase.
C7_Witness ==
    \E p \in Flushers : \E l \in Leaders :
        /\ fpc[p] = "deferStore"
        /\ fpath[p] = "failed"
        /\ fseq[p][l] # Absent
        /\ fcbs[p][l] # << >>

\* C8: a Flush call that follows a failed one and meets no failure re-runs
\* flushMemoryDatabase on the retained memtable: when an admitted Flush
\* returns nil, every memtable that was promoted has been flushed.
C8_FlushRetriesRetained ==
    \A p \in Flushers :
        (Returning(p, "nodata") \/ Returning(p, "flushed")) =>
            \A d \in DBIds : dbs[d].readOnly => dbs[d].flushed > 0

\* C9: after a Flush call that passed the admission gate and returns nil,
\* immutableMemDB is absent.
C9_NoImmutableAfterFlush ==
    \A p \in Flushers :
        (fpc[p] = "deferStore" /\ FlushResult(p) = "nil") =>
            immutableMemDB = NoDB

\* C10: a successful Flush invokes each callback that was registered for a
\* leader of its snapshot exactly once, counting the invocations made in
\* flushMemoryDatabase and in Flush.
C10_AckOncePerFlush ==
    \A p \in Flushers :
        Returning(p, "flushed") =>
            \A l \in Leaders :
                fseq[p][l] # Absent =>
                    \A i \in DOMAIN fcbs[p][l] :
                        Invocations(p, l, fcbs[p][l][i]) = 1

\* C11: AckSequence appends the callback to the leader's list and invokes it
\* exactly once, with the leader's current sequence, exactly when seq has an
\* entry for the leader; a CommitSequence call invokes no callback.
C11_AckAtRegistration ==
    [][ /\ \A l \in Leaders : callbacks'[l] # callbacks[l] =>
              \E c \in Consumers :
                  /\ callbacks'[l] = Append(callbacks[l], c)
                  /\ regInv' = IF seq[l] # Absent
                               THEN Append(regInv, <<l, c, seq[l]>>)
                               ELSE regInv
        /\ \A w \in Writers : (wpc[w] = "commit" /\ wpc'[w] = "idle") =>
              /\ regInv' = regInv
              /\ finv' = finv
              /\ cinv' = cinv ]_vars

\* A callback was invoked at registration and a later CommitSequence raised
\* the leader's sequence.
C11_Witness ==
    \E l \in Leaders :
        /\ callbacks[l] # << >>
        /\ Len(regInv) = 1
        /\ committed[l] # Absent
        /\ committed[l] > regInv[1][3]

\* The writable rows of the batch writer w is writing.
WritableRows(w) == Cardinality({i \in DOMAIN wbatch[w] : wbatch[w][i]})

\* C12: no WriteRow call is issued against a memory database after
\* MarkReadOnly was called on it: when WriteRows runs its loop over a batch
\* with a writable row, the memory database it obtained is not read-only.
C12_NoWriteAfterReadOnly ==
    [][ \A w \in Writers :
            (wpc[w] = "write" /\ wpc'[w] # "write" /\ WritableRows(w) > 0)
                => ~dbs[wdb[w]].readOnly ]_vars

\* C18: WriteRows returns an error exactly when the lazy creation of the
\* memory database fails, and then no row is written and mutableMemDB stays
\* absent; otherwise it returns nil whatever happens to the rows, writing at
\* most the writable rows into the memory database it obtained; an empty batch
\* returns nil and leaves the family as it is; no step of WriteRows changes
\* seq. (The writer is at "idle" after an error and at "commit" after nil.)
C18_WriteRowsResult ==
    [][ \A w \in Writers :
          /\ (wpc[w] \in {"get", "write"} /\ wpc'[w] # wpc[w]) => seq' = seq
          /\ (wpc[w] = "get" /\ wpc'[w] = "idle") =>
                /\ mutableMemDB = NoDB
                /\ mutableMemDB' = NoDB
                /\ dbs' = dbs
                /\ nextDB' = nextDB
          /\ (wpc[w] = "get" /\ wpc'[w] = "commit") =>
                /\ mutableMemDB' = mutableMemDB
                /\ immutableMemDB' = immutableMemDB
                /\ dbs' = dbs
                /\ nextDB' = nextDB
          /\ (wpc[w] = "get" /\ wpc'[w] = "write") =>
                /\ mutableMemDB' # NoDB
                /\ mutableMemDB # NoDB => mutableMemDB' = mutableMemDB
                /\ wdb'[w] = mutableMemDB'
                /\ dbs' = dbs
          /\ (wpc[w] = "write" /\ wpc'[w] # "write") =>
                /\ wpc'[w] = "commit"
                /\ \A d \in DBIds : d # wdb[w] => dbs'[d] = dbs[d]
                /\ dbs'[wdb[w]].rows >= dbs[wdb[w]].rows
                /\ dbs'[wdb[w]].rows <= dbs[wdb[w]].rows + WritableRows(w) ]_vars

\* WriteRows returned nil although no row of its batch was written: the only
\* memory database created so far is still empty.
C18_Witness ==
    \E w \in Writers :
        /\ wpc[w] = "commit"
        /\ mutableMemDB # NoDB
        /\ Size(mutableMemDB) = 0
        /\ immutableMemDB = NoDB
        /\ nextDB = 2

\* The state of the family that a Flush which is not admitted leaves alone.
FamilyState ==
    <<mutableMemDB, immutableMemDB, seq, persistSeq, immutableSeq, callbacks,
      dbs, kvSeq>>

\* C13: a Flush that is not admitted returns nil and changes nothing. A call
\* that loses the compare-and-set returns at once and leaves isFlushing and
\* the wait group alone; a call that finds no mutable data, or a retained
\* immutable memory database, takes no memory database, records nothing in a
\* flusher (kvSeq), invokes no callback and ends with isFlushing false, the
\* value it found; neither changes mutableMemDB, immutableMemDB, seq,
\* persistSeq, immutableSeq or callbacks.
C13_NonAdmittedFlushNoOp ==
    [][ \A p \in Flushers :
          /\ (fpc[p] = "idle" /\ fpc'[p] # "idle" /\ isFlushing) =>
                /\ fpc'[p] = "return"
                /\ isFlushing'
                /\ flushCondition' = flushCondition
                /\ FamilyState' = FamilyState
                /\ finv'[p] = {}
          /\ (fpc[p] = "return" /\ fpc'[p] # "return") =>
                /\ FlushResult(p) = "nil"
                /\ isFlushing' = isFlushing
                /\ flushCondition' = flushCondition
                /\ FamilyState' = FamilyState
                /\ finv'[p] = {}
          /\ (fpc[p] = "swap" /\ fpc'[p] # "swap"
                /\ (\/ immutableMemDB # NoDB
                    \/ mutableMemDB = NoDB
                    \/ dbs[mutableMemDB].rows = 0)) =>
                /\ fpath'[p] = "nodata"
                /\ fdb'[p] = NoDB
                /\ FamilyState' = FamilyState
                /\ finv'[p] = {}
          /\ (fpath[p] = "nodata" /\ fpc'[p] # fpc[p]) =>
                /\ FlushResult(p) = "nil"
                /\ fpc'[p] \in {"deferStore", "idle"}
                /\ FamilyState' = FamilyState
                /\ finv'[p] = {}
                /\ fpc'[p] = "idle" => ~isFlushing' ]_vars

\* A Flush is returning without having been admitted although the mutable
\* memory database holds rows: a flush that failed earlier left its memory
\* database in immutableMemDB.
C13_Witness ==
    \E p \in Flushers :
        /\ Returning(p, "nodata")
        /\ immutableMemDB # NoDB
        /\ mutableMemDB # NoDB
        /\ Size(mutableMemDB) > 0

\* C14: when Close returns nil, every memory database that held rows has been
\* passed to a flushMemoryDatabase call that succeeded: Close flushes the
\* immutable memory database first, with immutableSeq, and then the mutable
\* one, with a snapshot of seq taken then.
C14_CloseFlushesAll ==
    /\ cpc = "immWrite" => (immutableMemDB # NoDB /\ cseq = immutableSeq.m)
    /\ cpc = "mutWrite" =>
          /\ mutableMemDB # NoDB
          /\ cseq = seq
          /\ immutableMemDB # NoDB => dbs[immutableMemDB].flushed > 0
    /\ cpc = "remove" =>
          /\ \A d \in Created : dbs[d].rows > 0 => dbs[d].flushed > 0
          /\ immutableMemDB # NoDB => dbs[immutableMemDB].flushed > 0
          /\ mutableMemDB # NoDB => dbs[mutableMemDB].flushed > 0

\* Close is about to return nil after flushing a retained immutable memory
\* database and a mutable one, both holding rows.
C14_Witness ==
    /\ cpc = "remove"
    /\ immutableMemDB # NoDB
    /\ mutableMemDB # NoDB
    /\ dbs[immutableMemDB].rows > 0
    /\ dbs[mutableMemDB].rows > 0

\* C15: after Close has returned nil, no memory database that Close flushed
\* is passed to flushMemoryDatabase again: a Flush that enters
\* flushMemoryDatabase then does so with a memory database not flushed before.
C15_NoFlushAfterClose ==
    \A p \in Flushers :
        (fpc[p] = "fmdb" /\ cpc = "done" /\ cres = "nil")
            => dbs[fdb[p]].flushed = 0

\* C16: the family is in the family manager from its creation until a Close
\* call returns nil; a Close that returns a flush error leaves it there.
C16_Registered ==
    registered <=> ~(cpc = "done" /\ cres = "nil")

\* Close has returned a flush error.
C16_Witness ==
    /\ cpc = "done"
    /\ cres = "err"
    /\ registered

\* C17: NeedFlush never returns true at a moment when isFlushing is set or
\* immutableMemDB is present, and returns true only if mutableMemDB exists
\* and is not empty (and has reached the TTL or the size threshold, which
\* NeedFlushResult requires).
C17_NeedFlushTrue ==
    [][ (npc = "lock" /\ npc' = "true") =>
            /\ ~isFlushing'
            /\ immutableMemDB' = NoDB
            /\ mutableMemDB' # NoDB
            /\ dbs'[mutableMemDB'].rows > 0 ]_vars

\* C19: FlushDatabase on a node that is not master returns nil without a
\* lookup; on a master the lookup is made on a state manager that a
\* successful OnFailOver installed and no OnResignation has closed, and the
\* call returns ErrNoStorageCluster for an unknown cluster and the result of
\* the storage cluster's FlushDatabase otherwise.
C19_FlushDatabase ==
    \A a \in Admins :
        apc[a] = "done" =>
            IF alookup[a] = "none"
            THEN ares[a] = "nil"
            ELSE /\ alookup[a] = "open"
                 /\ ares[a] = "ErrNoStorageCluster" <=> acluster[a] = "unknown"
                 /\ ares[a] \in {"ErrNoStorageCluster", "nil", "err"}

\* C20: a Flush invokes callbacks only for the leaders of the snapshot it
\* took when it promoted, and only with the sequence of that snapshot, which
\* is the one recorded in its flusher.
C20_AcksWithinSnapshot ==
    \A p \in Flushers :
        \A e \in finv[p] :
            /\ fseq[p][e[2]] # Absent
            /\ e[4] = fseq[p][e[2]]

\* The place of a result set in what Filter returns.
TierRank(tier) ==
    IF tier = "mutable" THEN 1 ELSE IF tier = "immutable" THEN 2 ELSE 3

\* C21: a row a completed WriteRows stored is visible to every later Filter
\* under any interleaving with Flush. A memory database holding rows is
\* always mutableMemDB, immutableMemDB or flushed to the kv family; every
\* memory database that held rows when Filter ran memoryFilter is among its
\* memory result sets or in the kv snapshot it takes afterwards; and Filter
\* returns the mutable result sets, then the immutable ones, then the file
\* result sets.
C21_FilterSeesStoredRows ==
    /\ \A d \in Created :
          dbs[d].rows > 0 =>
              \/ d = mutableMemDB
              \/ d = immutableMemDB
              \/ dbs[d].flushed > 0
    /\ qpc = "done" =>
          /\ \A d \in qheld :
                \/ \E i \in DOMAIN qmem : qmem[i][2] = d
                \/ d \in qfile
          /\ \A i, j \in DOMAIN ResultSet :
                i < j => TierRank(ResultSet[i][1]) < TierRank(ResultSet[j][1])

\* Filter ran memoryFilter while a flush was writing: it has the rows from
\* the immutable memory database, which the kv snapshot holds as well by now,
\* and from a new mutable one.
C21_Witness ==
    /\ qpc = "done"
    /\ Len(qmem) = 2
    /\ qmem[2][2] \in qheld
    /\ qmem[2][2] \in qfile
    /\ qmem[1][2] \in qheld

\* The fields of the family that the mutex guards.
GuardedFields ==
    <<mutableMemDB, immutableMemDB, seq, persistSeq, immutableSeq, callbacks>>

\* C22: every read or write of the guarded fields happens under the family
\* mutex. A step that writes them is taken by a caller that takes the free
\* mutex for the step or holds it already; and the step of Flush that runs
\* flushMemoryDatabase, which reads the callbacks map, is not taken while
\* another caller, an AckSequence about to append among them, holds the mutex.
C22_StateUnderMutex ==
    [][ /\ GuardedFields' # GuardedFields =>
              \/ mutex = NoThread
              \/ mutex \in Consumers /\ mutex' = NoThread
        /\ \A p \in Flushers :
              (fpc[p] = "fmdb" /\ fpc'[p] = "commit") => mutex = NoThread ]_vars

\* A flushMemoryDatabase call that flushes memory database flushing and
\* records sequences in its flusher covers only rows that are persisted: no
\* batch committed at or below a recorded sequence lost a row, and the rows
\* of every such batch are in flushing or in a memory database flushed before.
WatermarkSound(sequences, flushing) ==
    \A l \in Leaders :
        sequences[l] # Absent =>
            /\ lost[l] = Absent \/ lost[l] > sequences[l]
            /\ \A d \in Created :
                  (minStored[d][l] # Absent /\ minStored[d][l] <= sequences[l])
                      => (d = flushing \/ dbs[d].flushed > 0)

\* C23: whenever a successful flushMemoryDatabase, from Flush or from Close,
\* records (l, s) in the flusher, every row of every batch for which
\* WriteRows returned nil and CommitSequence(l, s') with s' <= s was then
\* called is in the memory database being flushed or in one flushed before:
\* no persisted sequence covers a row that was dropped or is only in an
\* unflushed memory database.
C23_WatermarkSound ==
    [][ /\ \A p \in Flushers :
              (fpc[p] = "fmdb" /\ fpc'[p] = "commit")
                  => WatermarkSound(fseq[p], fdb[p])
        /\ (cpc \in {"immWrite", "mutWrite"} /\ dbs' # dbs)
              => WatermarkSound(cseq, CloseDB) ]_vars

====
